---- MODULE Spec2Model ----
(***************************************************************************)
(* Model of neural_canvas: the 2D runner (run_frames, regen_frames,        *)
(* reinit_model_from_metadata, fit) and the utilities it relies on         *)
(* (lerp, write_image, image_colormaps, load_tif_metadata).                *)
(*                                                                         *)
(* File names are sequences of one-character strings so that the string    *)
(* operations of the code (endswith, split, slicing, concatenation) are    *)
(* computed character by character.                                        *)
(***************************************************************************)
EXTENDS Integers, Sequences, FiniteSets, TLC

VARIABLES
    \* ---- utils.lerp ----
    lerp_args,      \* [z1, z2, n]: the arguments of the call
    lerp_states,    \* the list lerp returned (<<>> before the call)
    \* ---- utils.write_image(suffix='tif') / utils.load_tif_metadata ----
    tif_file,       \* the archival file at the path under test
    tif_result,     \* what load_tif_metadata did with it
    tif_source,     \* the metadata handed to write_image (None when the file was not written by it)
    \* ---- RunnerINRF2D ----
    model,          \* self.model
    colormaps,      \* self.colormaps
    skip_blank_generations,   \* self.skip_blank_generations
    out_files,      \* names of the files present in self.output_dir
    pc,             \* position of the runner's current call
    call,           \* arguments and locals of the current call
    frames,         \* run_frames: local list frames
    metadata,       \* run_frames: local list metadata
    calls,          \* number of calls made so far to each collaborator
    result          \* outcome of the last completed call

lerpVars == <<lerp_args, lerp_states>>
tifVars == <<tif_file, tif_result, tif_source>>
runnerVars == <<model, colormaps, skip_blank_generations, out_files, pc, call, frames, metadata, calls, result>>
vars == <<lerp_args, lerp_states, tif_file, tif_result, tif_source,
          model, colormaps, skip_blank_generations, out_files, pc, call, frames, metadata, calls, result>>

-----------------------------------------------------------------------------
(* Bounds *)

MaxN == 3            \* lerp: largest number of intermediate states
MaxZ == 2            \* lerp: samples range over -MaxZ..MaxZ
MaxSamples == 2      \* run_frames / regen_frames: largest num_samples
MaxCalls == 1        \* number of top-level runner calls in one behaviour
MaxEpochs == 2       \* fit: largest num_epochs

-----------------------------------------------------------------------------
(* Rational numbers, for the arithmetic of lerp: [num, den] with den > 0 *)

Rat(n, d) == [num |-> n, den |-> d]
RatInt(n) == Rat(n, 1)
RatAdd(a, b) == Rat(a.num * b.den + b.num * a.den, a.den * b.den)
RatSub(a, b) == Rat(a.num * b.den - b.num * a.den, a.den * b.den)
RatMul(a, b) == Rat(a.num * b.num, a.den * b.den)
RatDivInt(a, k) == Rat(a.num, a.den * k)
RatEq(a, b) == a.num * b.den = b.num * a.den

-----------------------------------------------------------------------------
(* utils.lerp *)

\* mutation of lerp: one state too few (total_frames = n + 1)
lerpShort(z1, z2, n) ==
    LET delta == RatDivInt(RatSub(z2.sample, z1.sample), n + 1)
        total_frames == n + 1
    IN  [k \in 1..total_frames |->
            [sample |-> RatAdd(z1.sample, RatMul(delta, RatInt(k - 1))),
             sample_shape |-> z1.sample_shape]]

\* lerp(z1, z2, n): entry k of the result is states[k-1] of the code
lerp(z1, z2, n) ==
    LET delta == RatDivInt(RatSub(z2.sample, z1.sample), n + 1)
        total_frames == n + 2
    IN  [k \in 1..total_frames |->
            [sample |-> RatAdd(z1.sample, RatMul(delta, RatInt(k - 1))),
             sample_shape |-> z1.sample_shape]]

LatentStates ==
    [sample : {RatInt(z) : z \in -MaxZ..MaxZ}, sample_shape : {1, 2}]

LerpInit ==
    /\ lerp_args \in [z1 : LatentStates, z2 : LatentStates, n : 0..MaxN]
    /\ lerp_args.z1.sample_shape = 1
    /\ lerp_states = <<>>

CallLerp ==
    /\ lerp_states = <<>>
    /\ lerp_states' = lerp(lerp_args.z1, lerp_args.z2, lerp_args.n)
    /\ UNCHANGED <<lerp_args, tifVars, runnerVars>>

-----------------------------------------------------------------------------
(* Python values held in a metadata block.  A float is kept as a number    *)
(* of halves (f = 3 is 1.5) so that int() of a float truncates and float() *)
(* of an int is a different representation of the same number.             *)

NoneV == [ty |-> "none", i |-> 0, s |-> ""]
IntV(n) == [ty |-> "int", i |-> n, s |-> ""]
FloatV(h) == [ty |-> "float", i |-> h, s |-> ""]
StrV(x) == [ty |-> "str", i |-> 0, s |-> x]
ListV(id) == [ty |-> "list", i |-> id, s |-> ""]
TensorV(id) == [ty |-> "tensor", i |-> id, s |-> ""]

\* Python's == on these values: an int and a float are equal when they are the same number
PyEq(a, b) ==
    IF a.ty \in {"int", "float"} /\ b.ty \in {"int", "float"}
    THEN (IF a.ty = "int" THEN 2 * a.i ELSE a.i) = (IF b.ty = "int" THEN 2 * b.i ELSE b.i)
    ELSE a = b

\* int(x): truncation toward zero of a float
PyInt(x) ==
    IF x.ty = "float"
    THEN IntV(IF x.i >= 0 THEN x.i \div 2 ELSE -((-x.i) \div 2))
    ELSE x

\* float(x)
PyFloat(x) == IF x.ty = "int" THEN FloatV(2 * x.i) ELSE x

\* the exception int(x) or float(x) raises, "" when it raises none
NumErr(x) ==
    CASE x.ty \in {"int", "float"} -> ""
      [] x.ty = "str" -> "ValueError"
      [] OTHER -> "TypeError"

-----------------------------------------------------------------------------
(* utils.load_tif_metadata *)

int_keys == <<"mlp_layer_width", "conv_feature_map_size", "input_encoding_dim", "num_graph_nodes">>
float_keys == <<"weight_init_mean", "weight_init_std", "weight_init_max", "weight_init_min">>
str_keys == <<"activations", "graph", "final_activation", "weight_init", "graph_topology">>
tensor_keys == <<"latents">>

Range(q) == {q[k] : k \in 1..Len(q)}

MetadataKeys ==
    {"seed", "latent_dim", "latent_scale", "x_dim", "y_dim", "c_dim", "device", "z_dim"}
        \cup Range(int_keys) \cup Range(float_keys) \cup Range(str_keys) \cup Range(tensor_keys)

\* the conversions of the code, in the order it evaluates them: <<key read, conversion>>
Conversions(data) ==
    <<  <<"seed", "int">>, <<"latent_dim", "int">>, <<"latent_scale", "float">>,
        <<"x_dim", "int">>, <<"y_dim", "int">>, <<"c_dim", "int">>, <<"device", "raw">>,
        <<IF "z_dim" \in DOMAIN data THEN "z_dim" ELSE "x_dim", "int">> >>
    \o [k \in 1..Len(int_keys) |-> <<int_keys[k], "opt_int">>]
    \o [k \in 1..Len(float_keys) |-> <<float_keys[k], "opt_float">>]

\* the exception one conversion raises on data, "" when none.  A missing key
\* is a KeyError, which only the try blocks of the optional keys catch.
ConversionErr(data, c) ==
    IF c[1] \notin DOMAIN data
    THEN (IF c[2] \in {"opt_int", "opt_float"} THEN "" ELSE "KeyError")
    ELSE IF c[2] = "raw" THEN "" ELSE NumErr(data[c[1]])

RECURSIVE FirstErr(_, _, _)
FirstErr(data, cs, k) ==
    IF k > Len(cs) THEN ""
    ELSE IF ConversionErr(data, cs[k]) # "" THEN ConversionErr(data, cs[k])
    ELSE FirstErr(data, cs, k + 1)

\* warnings.warn calls of the optional keys, in order
MissingWarnings(data) ==
    LET opt == int_keys \o float_keys \o str_keys
        miss == SelectSeq(opt, LAMBDA k : k \notin DOMAIN data)
    IN  [k \in 1..Len(miss) |-> [key |-> miss[k], msg |-> "not found, setting to None"]]
        \o (IF "latents" \in DOMAIN data THEN <<>>
            ELSE IF "latent" \in DOMAIN data
                 THEN << [key |-> "latents", msg |-> "found latent (old style), setting"] >>
                 ELSE << [key |-> "latents", msg |-> "not found, setting to None"] >>)

\* the metadata dict the code builds when no conversion raises
DecodedMetadata(data) ==
    LET get(k, conv) ==
            CASE conv = "int" -> PyInt(data[k])
              [] conv = "float" -> PyFloat(data[k])
              [] conv = "raw" -> data[k]
              [] conv = "opt_int" -> IF k \in DOMAIN data THEN PyInt(data[k]) ELSE NoneV
              [] conv = "opt_float" -> IF k \in DOMAIN data THEN PyFloat(data[k]) ELSE NoneV
              [] conv = "opt_raw" -> IF k \in DOMAIN data THEN data[k] ELSE NoneV
        first == [k \in MetadataKeys |->
            CASE k \in {"seed", "latent_dim", "x_dim", "y_dim", "c_dim"} -> get(k, "int")
              [] k = "latent_scale" -> get(k, "float")
              [] k = "device" -> get(k, "raw")
              [] k = "z_dim" -> IF "z_dim" \in DOMAIN data THEN get("z_dim", "int")
                                ELSE get("x_dim", "int")
              [] k \in Range(int_keys) -> get(k, "opt_int")
              [] k \in Range(float_keys) -> get(k, "opt_float")
              [] k \in Range(str_keys) -> get(k, "opt_raw")
              [] k = "latents" ->
                    IF "latents" \in DOMAIN data THEN TensorV(data["latents"].i)
                    ELSE IF "latent" \in DOMAIN data THEN TensorV(data["latent"].i)
                    ELSE NoneV]
    IN  [k \in MetadataKeys |->
            CASE k = "input_encoding_dim" /\ first[k] = NoneV -> IntV(1)
              [] k = "activations" /\ first[k] = StrV("basic") -> StrV("fixed")
              [] OTHER -> first[k]]

NoData == [k \in {} |-> NoneV]

\* an archival file: isfile is os.path.isfile(path); shaped is whether tifffile
\* can open it and finds a shaped metadata block; data is that block
TifFile(isfile, shaped, data) == [isfile |-> isfile, shaped |-> shaped, data |-> data]

Returned(img, md, warns) ==
    [raised |-> "", img |-> img, metadata |-> md, warnings |-> warns]
Raised(exc) ==
    [raised |-> exc, img |-> "", metadata |-> NoData, warnings |-> <<>>]

\* mutation of load_tif_metadata: the bare except is gone, the decode error propagates
load_tif_metadata_noexcept(f) ==
    IF ~f.isfile THEN Raised("AssertionError")
    ELSE IF ~f.shaped THEN Raised("TiffFileError")
    ELSE IF FirstErr(f.data, Conversions(f.data), 1) # ""
         THEN Raised(FirstErr(f.data, Conversions(f.data), 1))
    ELSE Returned("img", DecodedMetadata(f.data), MissingWarnings(f.data))

\* mutation of load_tif_metadata: input_encoding_dim is left at None
load_tif_metadata_nodefault(f) ==
    IF ~f.isfile THEN Raised("AssertionError")
    ELSE IF ~f.shaped
         THEN Returned("None", NoData, << [key |-> "", msg |-> "Could not load metadata"] >>)
    ELSE IF FirstErr(f.data, Conversions(f.data), 1) # ""
         THEN Raised(FirstErr(f.data, Conversions(f.data), 1))
    ELSE Returned("img",
                  [DecodedMetadata(f.data) EXCEPT !["input_encoding_dim"] =
                        IF "input_encoding_dim" \in DOMAIN f.data THEN @ ELSE NoneV],
                  MissingWarnings(f.data))

\* load_tif_metadata(path): the pair (img, metadata) it returns, the warnings
\* it emits, or the exception it raises.  (None, None) is img = "None" with
\* metadata = NoData.
load_tif_metadata(f) ==
    IF ~f.isfile THEN Raised("AssertionError")
    ELSE IF ~f.shaped
         THEN Returned("None", NoData, << [key |-> "", msg |-> "Could not load metadata"] >>)
    ELSE IF FirstErr(f.data, Conversions(f.data), 1) # ""
         THEN Raised(FirstErr(f.data, Conversions(f.data), 1))
    ELSE Returned("img", DecodedMetadata(f.data), MissingWarnings(f.data))

IsNonePair(r) == r.raised = "" /\ r.img = "None" /\ r.metadata = NoData

-----------------------------------------------------------------------------
(* Strings as sequences of characters *)

s_reproduce == <<"r", "e", "p", "r", "o", "d", "u", "c", "e">>
s__reproduce == <<"_", "r", "e", "p", "r", "o", "d", "u", "c", "e">>
s__0_rgb_png == <<"_", "0", "_", "r", "g", "b", ".", "p", "n", "g">>
s_gen_image == <<"g", "e", "n", "_", "i", "m", "a", "g", "e">>
s_tif == <<"t", "i", "f">>
s_png == <<"p", "n", "g">>
s_jpg == <<"j", "p", "g">>
s_rgb == <<"r", "g", "b">>
s_gray == <<"g", "r", "a", "y">>
s_hsv == <<"h", "s", "v">>
s_HSV == <<"H", "S", "V">>
s_lab == <<"l", "a", "b">>
s_hls == <<"h", "l", "s">>
s_luv == <<"l", "u", "v">>
s_foo == <<"f", "o", "o">>
s_fit == <<"f", "i", "t", "_">>
s__test == <<"_", "t", "e", "s", "t">>

\* str(i) for 0 <= i <= 9
Digits == <<"0", "1", "2", "3", "4", "5", "6", "7", "8", "9">>
Str(i) == << Digits[i + 1] >>

\* s.endswith(suffix)
EndsWith(s, suffix) ==
    /\ Len(s) >= Len(suffix)
    /\ SubSeq(s, Len(s) - Len(suffix) + 1, Len(s)) = suffix

\* the position of the first occurrence of sep in s, 0 when there is none
Find(s, sep) ==
    LET hits == {k \in 1..(Len(s) - Len(sep) + 1) : SubSeq(s, k, k + Len(sep) - 1) = sep}
    IN  IF hits = {} THEN 0 ELSE CHOOSE k \in hits : \A j \in hits : k <= j

\* s.split(sep)[0]
SplitFirst(s, sep) == IF Find(s, sep) = 0 THEN s ELSE SubSeq(s, 1, Find(s, sep) - 1)

\* s[:-4]
DropLast4(s) == SubSeq(s, 1, Len(s) - 4)

\* the number of (non-overlapping) occurrences of sep in s: s.count(sep)
RECURSIVE Count(_, _)
Count(s, sep) ==
    IF Find(s, sep) = 0 THEN 0
    ELSE 1 + Count(SubSeq(s, Find(s, sep) + Len(sep), Len(s)), sep)

\* c.lower() on the letters the colormap names use
LowerChar(c) ==
    CASE c = "H" -> "h" [] c = "S" -> "s" [] c = "V" -> "v" [] OTHER -> c
Lower(s) == [k \in 1..Len(s) |-> LowerChar(s[k])]

-----------------------------------------------------------------------------
(* utils.image_colormaps and utils.write_image *)

\* self.colormaps / the colormaps argument: None, or a list of names
NoColormaps == [given |-> FALSE, names |-> <<>>]
Colormaps(names) == [given |-> TRUE, names |-> names]

\* a rendered frame: id names the generation it came from, span is
\* frame.max() - frame.min(), c_dim is the size of its last axis
Frame(id, span, c_dim) == [id |-> id, span |-> span, c_dim |-> c_dim]
NoFrame == Frame(-1, 0, 0)

\* a file of the output directory: the image it holds, and for an archival
\* file whether it carries a shaped metadata block and that block
File(img, shaped, data) == [img |-> img, shaped |-> shaped, data |-> data]

\* the keys of a dict built from a list, in insertion order
RECURSIVE DictKeys(_)
DictKeys(q) ==
    IF q = <<>> THEN <<>>
    ELSE LET front == DictKeys(SubSeq(q, 1, Len(q) - 1))
             last == q[Len(q)]
         IN  IF last \in Range(front) THEN front ELSE Append(front, last)

ConvertibleColormaps == {s_rgb, s_gray, s_hsv, s_lab, s_hls, s_luv}

\* image_colormaps(img, colormaps): the dict it returns, as the list of its
\* items <<name, has_image>> in insertion order; has_image is FALSE where the
\* value is left at None
image_colormaps(img, names) ==
    LET own == IF img.c_dim = 3 THEN s_rgb ELSE s_gray
        keys == DictKeys([k \in 1..Len(names) |-> Lower(names[k])] \o << own >>)
    IN  [k \in 1..Len(keys) |-> << keys[k], keys[k] \in ConvertibleColormaps >>]

Written(files, exc, warns) == [files |-> files, raised |-> exc, warnings |-> warns]
NoFiles == [n \in {} |-> File(NoFrame, FALSE, NoData)]

\* the files of dict d followed by those of e (a later write replaces an earlier one)
Overwrite(d, e) == [n \in DOMAIN d \cup DOMAIN e |-> IF n \in DOMAIN e THEN e[n] ELSE d[n]]

\* the block tifffile stores for metadata: the dict plus the image shape
ShapedBlock(md) == [k \in DOMAIN md \cup {"shape"} |-> IF k = "shape" THEN ListV(0) ELSE md[k]]

\* write_image(path, img, suffix, metadata, colormaps): the files it writes,
\* the exception it raises ("" for none) and its warnings.  has_md is FALSE
\* for metadata=None.  cv2.imwrite raises on an image that is None.
write_image(path, img, suffix, md, has_md, cmaps) ==
    IF suffix \notin {s_jpg, s_png, s_tif} THEN Written(NoFiles, "AssertionError", <<>>)
    ELSE IF suffix # s_tif
    THEN IF cmaps.given
         THEN LET items == image_colormaps(img, cmaps.names)
                  bad == {k \in 1..Len(items) : ~items[k][2]}
                  stop == IF bad = {} THEN Len(items) + 1
                          ELSE CHOOSE k \in bad : \A j \in bad : k <= j
                  name(k) == path \o <<"_">> \o items[k][1] \o <<".">> \o suffix
              IN  Written([n \in {name(k) : k \in 1..(stop - 1)} |-> File(img, FALSE, NoData)],
                          IF bad = {} THEN "" ELSE "cv2.error", <<>>)
         ELSE Written([n \in {path \o <<".">> \o suffix} |-> File(img, FALSE, NoData)], "", <<>>)
    ELSE Written([n \in {path \o <<".">> \o s_tif} |->
                        IF has_md THEN File(img, TRUE, ShapedBlock(md))
                        ELSE File(img, FALSE, NoData)],
                 "",
                 IF has_md THEN <<>> ELSE << "No metadata provided for tiff file" >>)

-----------------------------------------------------------------------------
(* The archival codec on its own: a metadata dict is written with          *)
(* write_image(suffix='tif') and read back with load_tif_metadata, or a    *)
(* file that was not written by write_image is read.                       *)

s_path == <<"a">>

RequiredKeys == {"seed", "latent_dim", "latent_scale", "x_dim", "y_dim", "c_dim", "device"}
OptionalPresent == {"z_dim", "input_encoding_dim", "mlp_layer_width", "activations", "latents", "latent"}

\* the value a metadata dict of the inputs holds under an optional key
OptionalValue(k) ==
    CASE k = "z_dim" -> IntV(16)
      [] k = "input_encoding_dim" -> IntV(4)
      [] k = "mlp_layer_width" -> FloatV(9)
      [] k = "activations" -> StrV("basic")
      [] k = "latents" -> ListV(1)
      [] k = "latent" -> ListV(2)

\* metadata dicts handed to write_image: the required keys, typed as the
\* schema says or not (a seed of 42.5, a latent_scale of 1, a seed of "x"),
\* and any of the optional keys above
SourceMetadata ==
    { [k \in RequiredKeys \cup opt |->
            CASE k = "seed" -> seed
              [] k = "latent_dim" -> IntV(8)
              [] k = "latent_scale" -> scale
              [] k = "x_dim" -> x_dim
              [] k = "y_dim" -> IntV(64)
              [] k = "c_dim" -> IntV(3)
              [] k = "device" -> StrV("cpu")
              [] OTHER -> OptionalValue(k)] :
        seed \in {IntV(42), FloatV(85), StrV("x")},
        scale \in {FloatV(2), FloatV(3), IntV(1)},
        x_dim \in {IntV(64), IntV(32)},
        opt \in SUBSET OptionalPresent }

\* the schema of the required keys
SchemaTyped(md) ==
    /\ RequiredKeys \subseteq DOMAIN md
    /\ \A k \in {"seed", "latent_dim", "x_dim", "y_dim", "c_dim"} : md[k].ty = "int"
    /\ md["latent_scale"].ty \in {"float", "int"}
    /\ md["device"].ty = "str"

\* a legacy block without the key seed
LegacyBlock ==
    [k \in {"latent_dim", "latent_scale", "x_dim", "y_dim", "c_dim", "device"} |->
        IF k = "device" THEN StrV("cpu") ELSE IF k = "latent_scale" THEN FloatV(2) ELSE IntV(8)]

\* what is at the path before anything is written
ForeignFiles ==
    { TifFile(FALSE, FALSE, NoData),         \* no such file
      TifFile(TRUE, FALSE, NoData),          \* not a TIFF, or a TIFF without a shaped block
      TifFile(TRUE, TRUE, LegacyBlock) }     \* a block that lacks a required key

NotCalled == [called |-> FALSE, out |-> Raised("")]
Called(r) == [called |-> TRUE, out |-> r]

TifInit ==
    /\ tif_file \in ForeignFiles
    /\ tif_source \in [md : SourceMetadata, has_md : BOOLEAN, written : {FALSE}]
    /\ tif_result = NotCalled

\* utils.write_image(path, img, suffix='tif', metadata=...)
EncodeTif ==
    /\ ~tif_source.written
    /\ ~tif_result.called
    /\ LET w == write_image(s_path, Frame(0, 255, 3), s_tif,
                            tif_source.md, tif_source.has_md, NoColormaps)
           f == w.files[s_path \o <<".">> \o s_tif]
       IN  tif_file' = TifFile(TRUE, f.shaped, f.data)
    /\ tif_source' = [tif_source EXCEPT !.written = TRUE]
    /\ UNCHANGED <<tif_result, lerpVars, runnerVars>>

\* utils.load_tif_metadata(path)
LoadTif ==
    /\ ~tif_result.called
    /\ tif_result' = Called(load_tif_metadata(tif_file))
    /\ UNCHANGED <<tif_file, tif_source, lerpVars, runnerVars>>

-----------------------------------------------------------------------------
(* The input side of regen_frames: archival files and directories *)

n_a_tif == <<"a", ".", "t", "i", "f">>
n_a_reproduce_0_tif == <<"a", "_", "r", "e", "p", "r", "o", "d", "u", "c", "e", "_", "0", ".", "t", "i", "f">>
n_bad_tif == <<"b", "a", "d", ".", "t", "i", "f">>
n_b_reproduce == <<"b", "_", "r", "e", "p", "r", "o", "d", "u", "c", "e">>

\* the block of a file written by an earlier generation
ArchivedBlock(latents) ==
    ShapedBlock([k \in RequiredKeys \cup {"latents", "activations", "final_activation"} |->
        CASE k = "device" -> StrV("cpu")
          [] k = "latent_scale" -> FloatV(2)
          [] k = "latents" -> ListV(latents)
          [] k = "activations" -> StrV("basic")
          [] k = "final_activation" -> StrV("tanh")
          [] OTHER -> IntV(8)])

\* the files that exist on the input side
InputNames == {n_a_tif, n_a_reproduce_0_tif, n_bad_tif, n_b_reproduce}
InputFile(name) ==
    CASE name = n_a_tif -> TifFile(TRUE, TRUE, ArchivedBlock(1))
      [] name = n_a_reproduce_0_tif -> TifFile(TRUE, TRUE, ArchivedBlock(2))
      [] name = n_bad_tif -> TifFile(TRUE, FALSE, NoData)
      [] name = n_b_reproduce -> TifFile(TRUE, TRUE, ArchivedBlock(3))
      [] OTHER -> TifFile(FALSE, FALSE, NoData)

\* the directories that exist on the input side, and what each holds
DirNames == {"empty", "one", "mixed", "again"}
DirFiles(d) ==
    CASE d = "empty" -> {}
      [] d = "one" -> {n_a_tif}
      [] d = "mixed" -> {n_a_tif, n_bad_tif, n_b_reproduce}
      [] d = "again" -> {n_a_tif, n_a_reproduce_0_tif}

\* a path argument: a directory, a file, or a path that does not exist
DirPath(d) == [kind |-> "dir", dir |-> d, file |-> <<>>]
FilePath(n) == [kind |-> "file", dir |-> "", file |-> n]
MissingPath == [kind |-> "missing", dir |-> "", file |-> <<>>]
Paths == {DirPath(d) : d \in DirNames} \cup {FilePath(n_a_tif), FilePath(n_b_reproduce), MissingPath}

\* glob.glob(os.path.join(path, '*.tif'))
Glob(d) == {n \in DirFiles(d) : EndsWith(n, <<".">> \o s_tif)}

-----------------------------------------------------------------------------
(* RunnerINRF2D: state *)

NoModel == [bound |-> FALSE, map_fn |-> "", c_dim |-> 0, id |-> 0]
Model(map_fn, c_dim, id) == [bound |-> TRUE, map_fn |-> map_fn, c_dim |-> c_dim, id |-> id]

Spans == {14, 15}                      \* frame.max() - frame.min() of a generated frame
Shapes == {<<4, 4, 3>>, <<4, 4>>}        \* output_shape arguments
RandIDs == {7}                           \* torch.randint(0, 99999999, size=(1,)).item()

NoCall ==
    [op |-> "", num_samples |-> 0, autosave |-> FALSE, i |-> 0, randID |-> 0,
     frame |-> NoFrame, path |-> MissingPath, output_shape |-> <<>>, save_video |-> FALSE,
     remaining |-> {}, steps |-> <<>>, local_frames |-> "unbound", blank_logs |-> 0,
     loss_vals |-> <<>>, epoch |-> 0, num_epochs |-> 0, num_iters_per_epoch |-> 0,
     fit_iters |-> <<>>]

NoResult ==
    [op |-> "", raised |-> "", frames |-> <<>>, metadata |-> <<>>, returned |-> "",
     num_samples |-> 0, blank_logs |-> 0, loss_vals |-> <<>>,
     path |-> MissingPath, output_shape |-> <<>>, steps |-> <<>>]
Raise(op, exc) == [NoResult EXCEPT !.op = op, !.raised = exc]

NoCalls == [api |-> 0, init_latent_inputs |-> 0, generate |-> 0, fit |-> 0, INRF2D |-> 0]

\* INRF2D._metadata(meta_latents): the dict of the model's parameters and the
\* latents of one generation
_metadata(m, meta_latents) ==
    [k \in RequiredKeys \cup {"latents", "final_activation"} |->
        CASE k = "device" -> StrV("cpu")
          [] k = "latent_scale" -> FloatV(2)
          [] k = "c_dim" -> IntV(m.c_dim)
          [] k = "latents" -> ListV(meta_latents)
          [] k = "final_activation" -> StrV("tanh")
          [] OTHER -> IntV(8)]

\* an entry of the metadata list: the dict, and the generation (loop index)
\* whose meta_latents it was built from
Meta(of, block) == [of |-> of, block |-> block]

RunnerInit ==
    /\ model \in {NoModel, Model("INRConvMap", 3, 0), Model("INRLinearMap", 3, 0),
                  Model("INRLinearMap", 1, 0)}
    /\ colormaps \in {NoColormaps, Colormaps(<<>>), Colormaps(<<s_HSV>>), Colormaps(<<s_foo>>)}
    /\ skip_blank_generations \in BOOLEAN
    /\ out_files = NoFiles
    /\ pc = "idle"
    /\ call = NoCall
    /\ frames = <<>>
    /\ metadata = <<>>
    /\ calls = NoCalls
    /\ result = NoResult

-----------------------------------------------------------------------------
(* RunnerINRF2D.run_frames *)

\* lines 84-88: the assertion and the set-up of the loop
RunFramesCall ==
    /\ pc = "idle"
    /\ calls.api < MaxCalls
    /\ \E num_samples \in 0..MaxSamples, autosave \in BOOLEAN, randID \in RandIDs :
        IF ~model.bound
        THEN /\ result' = Raise("run_frames", "AssertionError")
             /\ calls' = [calls EXCEPT !.api = @ + 1]
             /\ UNCHANGED <<pc, call, frames, metadata>>
        ELSE /\ pc' = "rf_loop"
             /\ call' = [NoCall EXCEPT !.op = "run_frames", !.num_samples = num_samples,
                                       !.autosave = autosave, !.randID = randID]
             /\ frames' = <<>>
             /\ metadata' = <<>>
             /\ calls' = [calls EXCEPT !.api = @ + 1]
             /\ UNCHANGED result
    /\ UNCHANGED <<model, colormaps, skip_blank_generations, out_files, lerpVars, tifVars>>

\* whether lines 114-115 discard a frame
Blank(skip_blank, frame) == skip_blank /\ frame.span < 15

\* mutation of RfGenerate: the metadata of a discarded frame is kept
RfGenerateKeepMeta ==
    /\ pc = "rf_loop"
    /\ call.i < call.num_samples
    /\ \E span \in Spans :
        LET frame == Frame(call.i, span, model.c_dim) IN
        /\ metadata' = Append(metadata, Meta(call.i, _metadata(model, call.i)))
        /\ IF Blank(skip_blank_generations, frame)
           THEN /\ call' = [call EXCEPT !.i = @ + 1, !.blank_logs = @ + 1]
                /\ UNCHANGED pc
           ELSE /\ call' = [call EXCEPT !.frame = frame]
                /\ pc' = "rf_retained"
    /\ calls' = [calls EXCEPT !.init_latent_inputs = @ + 1, !.generate = @ + 1]
    /\ UNCHANGED <<model, colormaps, skip_blank_generations, out_files, frames, result,
                   lerpVars, tifVars>>

\* mutation of RfGenerate: the continue of line 117 is gone, a blank frame is
\* logged and kept
RfGenerateNoContinue ==
    /\ pc = "rf_loop"
    /\ call.i < call.num_samples
    /\ \E span \in Spans :
        LET frame == Frame(call.i, span, model.c_dim) IN
        /\ metadata' = Append(metadata, Meta(call.i, _metadata(model, call.i)))
        /\ call' = [call EXCEPT !.frame = frame,
                                !.blank_logs = IF Blank(skip_blank_generations, frame)
                                               THEN @ + 1 ELSE @]
        /\ pc' = "rf_retained"
    /\ calls' = [calls EXCEPT !.init_latent_inputs = @ + 1, !.generate = @ + 1]
    /\ UNCHANGED <<model, colormaps, skip_blank_generations, out_files, frames, result,
                   lerpVars, tifVars>>

\* lines 89-118: one pass of the loop up to metadata.append, or up to continue
RfGenerate ==
    /\ pc = "rf_loop"
    /\ call.i < call.num_samples
    /\ \E span \in Spans :
        LET frame == Frame(call.i, span, model.c_dim) IN
        IF Blank(skip_blank_generations, frame)
        THEN /\ call' = [call EXCEPT !.i = @ + 1, !.blank_logs = @ + 1]
             /\ UNCHANGED <<pc, metadata>>
        ELSE /\ metadata' = Append(metadata, Meta(call.i, _metadata(model, call.i)))
             /\ call' = [call EXCEPT !.frame = frame]
             /\ pc' = "rf_retained"
    /\ calls' = [calls EXCEPT !.init_latent_inputs = @ + 1, !.generate = @ + 1]
    /\ UNCHANGED <<model, colormaps, skip_blank_generations, out_files, frames, result,
                   lerpVars, tifVars>>

\* f'{self.save_prefix}_{randID}_{i}' in output_dir
FreshName(randID, i) == s_gen_image \o <<"_">> \o Str(randID) \o <<"_">> \o Str(i)

\* lines 119-125: the two writes of autosave, then frames.append
RfAppend ==
    /\ pc = "rf_retained"
    /\ LET save_fn == FreshName(call.randID, call.i)
           png == write_image(save_fn, call.frame, s_png, NoData, FALSE, colormaps)
           tif == write_image(save_fn, call.frame, s_tif,
                              metadata[Len(metadata)].block, TRUE, NoColormaps)
       IN  IF call.autosave /\ png.raised # ""
           THEN /\ out_files' = Overwrite(out_files, png.files)
                /\ result' = Raise("run_frames", png.raised)
                /\ pc' = "idle"
                /\ call' = NoCall
                /\ frames' = <<>>
                /\ metadata' = <<>>
           ELSE /\ out_files' = IF call.autosave
                                THEN Overwrite(Overwrite(out_files, png.files), tif.files)
                                ELSE out_files
                /\ frames' = Append(frames, call.frame)
                /\ call' = [call EXCEPT !.i = @ + 1, !.frame = NoFrame]
                /\ pc' = "rf_loop"
                /\ UNCHANGED <<result, metadata>>
    /\ UNCHANGED <<model, colormaps, skip_blank_generations, calls, lerpVars, tifVars>>

\* line 126
RfReturn ==
    /\ pc = "rf_loop"
    /\ call.i = call.num_samples
    /\ result' = [NoResult EXCEPT !.op = "run_frames", !.frames = frames,
                                  !.metadata = metadata, !.returned = "frames, metadata",
                                  !.num_samples = call.num_samples,
                                  !.blank_logs = call.blank_logs]
    /\ pc' = "idle"
    /\ call' = NoCall
    /\ frames' = <<>>
    /\ metadata' = <<>>
    /\ UNCHANGED <<model, colormaps, skip_blank_generations, out_files, calls,
                   lerpVars, tifVars>>

-----------------------------------------------------------------------------
(* RunnerINRF2D.fit *)

\* f'{self.output_dir}/fit_{epoch}'
FitName(epoch) == s_fit \o Str(epoch)

\* the values of num_iters_per_epoch a caller passes
NumIters == {1, 100}

\* lines 242-255: the two assertions, then the optimizer, the loss and the
\* two init_latent_inputs calls
FitCall ==
    /\ pc = "idle"
    /\ calls.api < MaxCalls
    /\ \E num_epochs \in 0..MaxEpochs, num_iters_per_epoch \in NumIters :
        IF ~model.bound \/ model.map_fn # "INRConvMap"
        THEN /\ result' = Raise("fit", "AssertionError")
             /\ calls' = [calls EXCEPT !.api = @ + 1]
             /\ UNCHANGED <<pc, call>>
        ELSE /\ pc' = "fit_loop"
             /\ call' = [NoCall EXCEPT !.op = "fit", !.num_epochs = num_epochs,
                                     !.num_iters_per_epoch = num_iters_per_epoch]
             /\ calls' = [calls EXCEPT !.api = @ + 1, !.init_latent_inputs = @ + 2]
             /\ UNCHANGED result
    /\ UNCHANGED <<model, colormaps, skip_blank_generations, out_files, frames, metadata,
                   lerpVars, tifVars>>

\* mutation of FitEpoch: the test frame is written under the name of the
\* training frame
FitEpochTestOverTrain ==
    /\ pc = "fit_loop"
    /\ call.epoch < call.num_epochs
    /\ LET frame == Frame(call.epoch, 255, model.c_dim)
           test_frame == Frame(call.epoch + 10, 255, model.c_dim)
           w1 == write_image(FitName(call.epoch), frame, s_png, NoData, FALSE, NoColormaps)
           w2 == write_image(FitName(call.epoch), frame, s_tif, NoData, FALSE, NoColormaps)
           w3 == write_image(FitName(call.epoch), test_frame, s_png,
                             NoData, FALSE, NoColormaps)
           w4 == write_image(FitName(call.epoch), test_frame, s_tif,
                             NoData, FALSE, NoColormaps)
       IN  out_files' = Overwrite(Overwrite(Overwrite(Overwrite(out_files, w1.files),
                                                      w2.files), w3.files), w4.files)
    /\ calls' = [calls EXCEPT !.fit = @ + 1]
    /\ call' = [call EXCEPT !.loss_vals = Append(@, calls.fit + 1), !.epoch = @ + 1,
                            !.fit_iters = Append(@, call.num_iters_per_epoch)]
    /\ UNCHANGED <<model, colormaps, skip_blank_generations, pc, frames, metadata, result,
                   lerpVars, tifVars>>

\* lines 256-270: one epoch: Model.fit, the loss, the four writes.  The loss
\* value is named by the Model.fit call it came from; the training frame of
\* epoch e is Frame(e, ..), its test frame Frame(e + 10, ..).
FitEpoch ==
    /\ pc = "fit_loop"
    /\ call.epoch < call.num_epochs
    /\ LET frame == Frame(call.epoch, 255, model.c_dim)
           test_frame == Frame(call.epoch + 10, 255, model.c_dim)
           w1 == write_image(FitName(call.epoch), frame, s_png, NoData, FALSE, NoColormaps)
           w2 == write_image(FitName(call.epoch), frame, s_tif, NoData, FALSE, NoColormaps)
           w3 == write_image(FitName(call.epoch) \o s__test, test_frame, s_png,
                             NoData, FALSE, NoColormaps)
           w4 == write_image(FitName(call.epoch) \o s__test, test_frame, s_tif,
                             NoData, FALSE, NoColormaps)
       IN  out_files' = Overwrite(Overwrite(Overwrite(Overwrite(out_files, w1.files),
                                                      w2.files), w3.files), w4.files)
    /\ calls' = [calls EXCEPT !.fit = @ + 1]
    /\ call' = [call EXCEPT !.loss_vals = Append(@, calls.fit + 1), !.epoch = @ + 1,
                            !.fit_iters = Append(@, call.num_iters_per_epoch)]
    /\ UNCHANGED <<model, colormaps, skip_blank_generations, pc, frames, metadata, result,
                   lerpVars, tifVars>>

\* lines 271-272
FitReturn ==
    /\ pc = "fit_loop"
    /\ call.epoch = call.num_epochs
    /\ result' = [NoResult EXCEPT !.op = "fit", !.returned = "loss_vals",
                                  !.loss_vals = call.loss_vals]
    /\ pc' = "idle"
    /\ call' = NoCall
    /\ UNCHANGED <<model, colormaps, skip_blank_generations, out_files, frames, metadata, calls,
                   lerpVars, tifVars>>

-----------------------------------------------------------------------------
(* RunnerINRF2D.reinit_model_from_metadata *)

\* the metadata argument: None (the default) or a dict
NoMetadataArg == [given |-> FALSE, md |-> NoData]
MetadataArg(md) == [given |-> TRUE, md |-> md]

\* the keys the INRF2D constructor and init_map_fn are given
ConstructorKeys == {"latent_dim", "latent_scale", "seed"}
MapFnKeys == {"mlp_layer_width", "activations", "final_activation", "weight_init",
              "weight_init_mean", "weight_init_std", "weight_init_max", "weight_init_min",
              "graph_topology", "num_graph_nodes", "graph"}

Reinit(exc, m, built, latent) == [raised |-> exc, model |-> m, built |-> built, latent |-> latent]

\* mutation of reinit_model_from_metadata: the shape is asserted after the
\* model has been rebuilt and bound
reinit_model_from_metadata_late_assert(self_model, output_shape, f, arg, id) ==
    LET loaded == IF arg.given THEN Returned("img", arg.md, <<>>) ELSE load_tif_metadata(f)
        md == loaded.metadata
        c == IF Len(output_shape) >= 3 THEN output_shape[3] ELSE 1
    IN  IF loaded.raised # "" THEN Reinit(loaded.raised, self_model, 0, NoneV)
        ELSE IF md = NoData THEN Reinit("TypeError", self_model, 0, NoneV)
        ELSE IF ~(ConstructorKeys \subseteq DOMAIN md) THEN Reinit("KeyError", self_model, 0, NoneV)
        ELSE IF ~(MapFnKeys \subseteq DOMAIN md) THEN Reinit("KeyError", self_model, 1, NoneV)
        ELSE IF Len(output_shape) # 3
             THEN Reinit("AssertionError", Model("INRLinearMap", c, id), 1, NoneV)
        ELSE IF "latent" \notin DOMAIN md
             THEN Reinit("KeyError", Model("INRLinearMap", c, id), 1, NoneV)
        ELSE Reinit("", Model("INRLinearMap", c, id), 1, md["latent"])

\* reinit_model_from_metadata(output_shape, path, metadata), lines 138-158:
\* the exception it raises, the model bound to the runner afterwards, the
\* number of INRF2D objects it built, and the latent it returns.  f is the
\* file at path, id names the INRF2D object it builds.
reinit_model_from_metadata(self_model, output_shape, f, arg, id) ==
    LET loaded == IF arg.given THEN Returned("img", arg.md, <<>>) ELSE load_tif_metadata(f)
        md == loaded.metadata
    IN  IF loaded.raised # "" THEN Reinit(loaded.raised, self_model, 0, NoneV)
        ELSE IF Len(output_shape) # 3 THEN Reinit("AssertionError", self_model, 0, NoneV)
        ELSE IF md = NoData THEN Reinit("TypeError", self_model, 0, NoneV)
        ELSE IF ~(ConstructorKeys \subseteq DOMAIN md) THEN Reinit("KeyError", self_model, 0, NoneV)
        ELSE IF ~(MapFnKeys \subseteq DOMAIN md) THEN Reinit("KeyError", self_model, 1, NoneV)
        ELSE IF "latent" \notin DOMAIN md
             THEN Reinit("KeyError", Model("INRLinearMap", output_shape[3], id), 1, NoneV)
        ELSE Reinit("", Model("INRLinearMap", output_shape[3], id), 1, md["latent"])

\* an old-style dict a caller passes as metadata: the decoded block of a.tif
\* with its latents also under the key latent
OldStyleMetadata ==
    LET md == DecodedMetadata(InputFile(n_a_tif).data)
    IN  [k \in DOMAIN md \cup {"latent"} |-> IF k = "latent" THEN md["latents"] ELSE md[k]]

\* a call of reinit_model_from_metadata by the user of the runner
ReinitCall ==
    /\ pc = "idle"
    /\ calls.api < MaxCalls
    /\ \E output_shape \in Shapes, name \in {n_a_tif, n_bad_tif},
          arg \in {NoMetadataArg, MetadataArg(OldStyleMetadata)} :
        LET r == reinit_model_from_metadata(model, output_shape, InputFile(name), arg,
                                            calls.INRF2D + 1)
        IN  /\ model' = r.model
            /\ calls' = [calls EXCEPT !.api = @ + 1, !.INRF2D = @ + r.built]
            /\ result' = [NoResult EXCEPT !.op = "reinit_model_from_metadata",
                                          !.output_shape = output_shape,
                                          !.raised = r.raised,
                                          !.returned = IF r.raised = "" THEN "latent" ELSE ""]
    /\ UNCHANGED <<colormaps, skip_blank_generations, out_files, pc, call, frames, metadata,
                   lerpVars, tifVars>>

-----------------------------------------------------------------------------
(* RunnerINRF2D.regen_frames *)

\* lines 195-198: the name under which the frames of an input file are saved
SaveName(path_basename) ==
    LET basename == IF EndsWith(path_basename, s_reproduce)
                    THEN SplitFirst(path_basename, s__reproduce)
                    ELSE path_basename
    IN  DropLast4(basename) \o s__reproduce

\* line 199: os.path.exists(save_fn+'_0_rgb.png')
FoundExisting(files, save_fn) == (save_fn \o s__0_rgb_png) \in DOMAIN files

\* run_frames as regen_frames calls it (autosave=False): the frames and the
\* metadata it returns when generation i has span spans[i+1]
RECURSIVE Retained(_, _, _, _, _)
Retained(m, skip_blank, latent, spans, n) ==
    IF n = 0 THEN [frames |-> <<>>, metadata |-> <<>>]
    ELSE LET front == Retained(m, skip_blank, latent, spans, n - 1)
             frame == Frame(n - 1, spans[n], m.c_dim)
         IN  IF Blank(skip_blank, frame) THEN front
             ELSE [frames |-> Append(front.frames, frame),
                   metadata |-> Append(front.metadata, Meta(n - 1, _metadata(m, latent.i)))]

\* lines 216-218: the writes of the first k surviving frames, in order; the
\* first write that raises ends them
RECURSIVE Persist(_, _, _, _, _)
Persist(save_fn, fs, mds, cmaps, k) ==
    IF k = 0 THEN Written(NoFiles, "", <<>>)
    ELSE LET front == Persist(save_fn, fs, mds, cmaps, k - 1)
             name == save_fn \o <<"_">> \o Str(k - 1)
             png == write_image(name, fs[k], s_png, NoData, FALSE, cmaps)
             tif == write_image(name, fs[k], s_tif, mds[k].block, TRUE, NoColormaps)
         IN  IF front.raised # "" THEN front
             ELSE IF png.raised # ""
                  THEN Written(Overwrite(front.files, png.files), png.raised, <<>>)
             ELSE Written(Overwrite(Overwrite(front.files, png.files), tif.files), "", <<>>)

\* what regen_frames did with one input file
NoRun == [called |-> FALSE, latents |-> NoneV, autosave |-> FALSE, returned |-> 0]
Ran(latents, n) == [called |-> TRUE, latents |-> latents, autosave |-> FALSE, returned |-> n]
Step(file, save_fn, skipped, built, run, wrote, exc) ==
    [file |-> file, save_fn |-> save_fn, skipped |-> skipped, built |-> built,
     run |-> run, wrote |-> wrote, raised |-> exc]

\* the outcome of a regen_frames call: its arguments, what it did with each
\* file it got to, and how it ended
Regen(c, steps, exc, returned) ==
    [NoResult EXCEPT !.op = "regen_frames", !.path = c.path, !.output_shape = c.output_shape,
                     !.num_samples = c.num_samples, !.steps = steps, !.raised = exc,
                     !.returned = returned]

\* lines 187-193
RegenCall ==
    /\ pc = "idle"
    /\ calls.api < MaxCalls
    /\ \E path \in Paths, output_shape \in Shapes, num_samples \in 1..MaxSamples,
          save_video \in BOOLEAN :
        LET c == [NoCall EXCEPT !.op = "regen_frames", !.path = path,
                                !.output_shape = output_shape, !.num_samples = num_samples,
                                !.save_video = save_video,
                                !.remaining = IF path.kind = "dir" THEN Glob(path.dir)
                                              ELSE {path.file}]
        IN  IF path.kind = "missing"
            THEN /\ result' = Regen(c, <<>>, "AssertionError", "")
                 /\ UNCHANGED <<pc, call>>
            ELSE /\ pc' = "regen_loop"
                 /\ call' = c
                 /\ UNCHANGED result
    /\ calls' = [calls EXCEPT !.api = @ + 1]
    /\ UNCHANGED <<model, colormaps, skip_blank_generations, out_files, frames, metadata,
                   lerpVars, tifVars>>

\* what one pass of the loop leaves behind: whether the loop goes on, the
\* record of the pass, the local frames, self.model, the model calls made and
\* the files written
Pass(goes_on, step, local_frames, m, generated, files) ==
    [goes_on |-> goes_on, step |-> step, local_frames |-> local_frames, model |-> m,
     generated |-> generated, files |-> files]

\* lines 212-221: the end of a pass in which run_frames returned got and the
\* writes of lines 216-218 did w
regen_saved(name, save_fn, r, got, w, c) ==
    LET run == Ran(r.latent, Len(got.frames))
    IN  IF Len(got.frames) = 0
        THEN Pass(TRUE, Step(name, save_fn, FALSE, r.built, run, {}, ""), "[]",
                  r.model, c.num_samples, NoFiles)
        ELSE IF w.raised # ""
        THEN Pass(FALSE, Step(name, save_fn, FALSE, r.built, run, DOMAIN w.files, w.raised),
                  "list", r.model, c.num_samples, w.files)
        \* line 220: write_video has no parameter save_name
        ELSE IF c.save_video
        THEN Pass(FALSE, Step(name, save_fn, FALSE, r.built, run, DOMAIN w.files, "TypeError"),
                  "list", r.model, c.num_samples, w.files)
        ELSE Pass(TRUE, Step(name, save_fn, FALSE, r.built, run, DOMAIN w.files, ""),
                  "None", r.model, c.num_samples, w.files)

\* lines 206-221: the pass from the call of run_frames on, which returned got
regen_generated(name, save_fn, r, got, cmaps, c) ==
    regen_saved(name, save_fn, r, got,
                Persist(save_fn, got.frames, got.metadata, cmaps, Len(got.frames)), c)

\* lines 205-221: the pass from reinit_model_from_metadata on, which did r
regen_reinit(name, save_fn, r, spans, cmaps, skip_blank, c, local_frames) ==
    IF r.raised # ""
    THEN Pass(FALSE, Step(name, save_fn, FALSE, r.built, NoRun, {}, r.raised), local_frames,
              r.model, 0, NoFiles)
    ELSE regen_generated(name, save_fn, r,
                         Retained(r.model, skip_blank, r.latent, spans, c.num_samples),
                         cmaps, c)

\* lines 195-221 for the input file name, when generation i of run_frames
\* has span spans[i+1]
regen_file(name, spans, self_model, cmaps, skip_blank, files, c, local_frames, id) ==
    IF FoundExisting(files, SaveName(name))
    THEN Pass(TRUE, Step(name, SaveName(name), TRUE, 0, NoRun, {}, ""), local_frames,
              self_model, 0, NoFiles)
    ELSE regen_reinit(name, SaveName(name),
                      reinit_model_from_metadata(self_model, c.output_shape, InputFile(name),
                                                 NoMetadataArg, id),
                      spans, cmaps, skip_blank, c, local_frames)

\* the spans run_frames can meet for the input file name: none when the pass
\* ends before run_frames is called
SpansOf(name, self_model, files, c, id) ==
    IF \/ FoundExisting(files, SaveName(name))
       \/ reinit_model_from_metadata(self_model, c.output_shape, InputFile(name),
                                     NoMetadataArg, id).raised # ""
    THEN {<<>>}
    ELSE [1..c.num_samples -> Spans]

\* lines 194-221: one pass of the loop over image_paths, for any next file
\* (glob returns the files in an arbitrary order)
RegenFile ==
    /\ pc = "regen_loop"
    /\ \E name \in call.remaining :
       \E spans \in SpansOf(name, model, out_files, call, calls.INRF2D + 1) :
        LET p == regen_file(name, spans, model, colormaps, skip_blank_generations, out_files,
                            call, call.local_frames, calls.INRF2D + 1)
        IN  /\ model' = p.model
            /\ calls' = [calls EXCEPT !.INRF2D = @ + p.step.built,
                                      !.init_latent_inputs = @ + p.generated,
                                      !.generate = @ + p.generated]
            /\ out_files' = Overwrite(out_files, p.files)
            /\ IF p.goes_on
               THEN /\ call' = [call EXCEPT !.remaining = @ \ {name},
                                            !.steps = Append(@, p.step),
                                            !.local_frames = p.local_frames]
                    /\ UNCHANGED <<pc, result>>
               ELSE /\ pc' = "idle"
                    /\ call' = NoCall
                    /\ result' = Regen(call, Append(call.steps, p.step), p.step.raised, "")
    /\ UNCHANGED <<colormaps, skip_blank_generations, frames, metadata, lerpVars, tifVars>>

\* line 222: return frames, a local that is bound only by a pass of the loop
\* that got as far as line 206
RegenReturn ==
    /\ pc = "regen_loop"
    /\ call.remaining = {}
    /\ LET exc == IF call.local_frames = "unbound" THEN "UnboundLocalError" ELSE ""
           returned == IF call.local_frames = "unbound" THEN "" ELSE call.local_frames
       IN  result' = Regen(call, call.steps, exc, returned)
    /\ pc' = "idle"
    /\ call' = NoCall
    /\ UNCHANGED <<model, colormaps, skip_blank_generations, out_files, frames, metadata, calls,
                   lerpVars, tifVars>>

-----------------------------------------------------------------------------
(* utils.write_image called directly, on a name regen_frames derives *)

WriteImage ==
    /\ pc = "idle"
    /\ \E name \in {n_a_tif, n_a_reproduce_0_tif}, c_dim \in {1, 3} :
        LET path == SaveName(name) \o <<"_">> \o Str(0)
            img == Frame(0, 255, c_dim)
            png == write_image(path, img, s_png, NoData, FALSE, colormaps)
            tif == write_image(path, img, s_tif, InputFile(name).data, TRUE, NoColormaps)
        IN  /\ (path \o <<".">> \o s_tif) \notin DOMAIN out_files
            /\ out_files' = IF png.raised # "" THEN Overwrite(out_files, png.files)
                            ELSE Overwrite(Overwrite(out_files, png.files), tif.files)
            /\ result' = Raise("write_image", png.raised)
    /\ UNCHANGED <<model, colormaps, skip_blank_generations, pc, call, frames, metadata, calls,
                   lerpVars, tifVars>>

-----------------------------------------------------------------------------
(* Specifications *)

LerpIdle == lerp_args = [z1 |-> [sample |-> RatInt(0), sample_shape |-> 1],
                         z2 |-> [sample |-> RatInt(0), sample_shape |-> 1], n |-> 0]
            /\ lerp_states = <<>>
TifIdle == /\ tif_file = TifFile(FALSE, FALSE, NoData)
           /\ tif_source = [md |-> NoData, has_md |-> FALSE, written |-> FALSE]
           /\ tif_result = NotCalled
RunnerIdle ==
    /\ model = NoModel
    /\ colormaps = NoColormaps
    /\ skip_blank_generations = TRUE
    /\ out_files = NoFiles
    /\ pc = "idle"
    /\ call = NoCall
    /\ frames = <<>>
    /\ metadata = <<>>
    /\ calls = NoCalls
    /\ result = NoResult

\* the runner: generation, fitting, model reconstruction
Init == RunnerInit /\ LerpIdle /\ TifIdle
Next ==
    \/ RunFramesCall \/ RfGenerate \/ RfAppend \/ RfReturn
    \/ FitCall \/ FitEpoch \/ FitReturn
    \/ ReinitCall
Spec == Init /\ [][Next]_vars

\* the runner: regeneration from archival files
InitRegen ==
    /\ RunnerInit
    /\ model \in {NoModel, Model("INRLinearMap", 3, 0)}
    /\ skip_blank_generations
    /\ LerpIdle
    /\ TifIdle
NextRegen == RegenCall \/ RegenFile \/ RegenReturn \/ WriteImage
SpecRegen == InitRegen /\ [][NextRegen]_vars

\* lerp
InitLerp == LerpInit /\ TifIdle /\ RunnerIdle
NextLerp == CallLerp
SpecLerp == InitLerp /\ [][NextLerp]_vars

\* the archival codec
InitTif == TifInit /\ LerpIdle /\ RunnerIdle
NextTif == EncodeTif \/ LoadTif
SpecTif == InitTif /\ [][NextTif]_vars

-----------------------------------------------------------------------------
(* Properties *)

\* entry k of mds is the metadata of entry k of fs, for every k both have
Aligned(fs, mds) ==
    \A k \in 1..Len(fs) : k <= Len(mds) => mds[k].of = fs[k].id

\* the passes of the regen_frames call in progress or, when none is, of the
\* last one completed
PassesSoFar == IF pc = "regen_loop" THEN call.steps ELSE result.steps

\* load_tif_metadata decodes the input file name
Decodes(name) ==
    /\ load_tif_metadata(InputFile(name)).raised = ""
    /\ ~IsNonePair(load_tif_metadata(InputFile(name)))

\* the first output of the input file name is in the output directory, as
\* lines 217-218 write it for a frame of some channel count under self.colormaps
Persisted(name) ==
    \E c_dim \in {1, 3} :
        LET path == SaveName(name) \o <<"_">> \o Str(0)
            png == write_image(path, Frame(0, 255, c_dim), s_png, NoData, FALSE, colormaps)
        IN  /\ png.raised = ""
            /\ DOMAIN png.files # {}
            /\ DOMAIN png.files \subseteq DOMAIN out_files
            /\ (path \o <<".">> \o s_tif) \in DOMAIN out_files

\* C1 (as claimed): when the first output of every input file is already in
\* the output directory, whatever self.colormaps is, regen_frames skips the
\* file: it reconstructs no model and writes or changes no file.
C1_Idempotent ==
    [][(pc = "regen_loop" /\ call.remaining # {}
            /\ \A name \in call.remaining : Persisted(name))
        => (calls'.INRF2D = calls.INRF2D /\ out_files' = out_files)]_vars

\* C2 (as claimed): at every point of run_frames and at its return, frames
\* and metadata have the same length and are aligned entry by entry, and no
\* discarded frame is in frames.
C2_AlignedAtEveryPoint ==
    /\ Len(frames) = Len(metadata)
    /\ Aligned(frames, metadata)
    /\ \A k \in 1..Len(frames) : ~Blank(skip_blank_generations, frames[k])
    /\ Len(result.frames) = Len(result.metadata)
    /\ Aligned(result.frames, result.metadata)

\* C2 (amended): at the head of every pass of the loop and at return, frames
\* and metadata have the same length and are aligned, and no discarded frame
\* is in frames; between metadata.append (line 118) and frames.append
\* (line 125), where autosave writes, metadata is one entry ahead: the
\* metadata of the frame about to be appended.
C2_AlignedAtLoopHead ==
    /\ Aligned(frames, metadata)
    /\ \A k \in 1..Len(frames) : ~Blank(skip_blank_generations, frames[k])
    /\ pc # "rf_retained" => Len(frames) = Len(metadata)
    /\ pc = "rf_retained" =>
            /\ Len(metadata) = Len(frames) + 1
            /\ metadata[Len(metadata)].of = call.frame.id
            /\ ~Blank(skip_blank_generations, call.frame)
    /\ Len(result.frames) = Len(result.metadata)
    /\ Aligned(result.frames, result.metadata)
    /\ \A k \in 1..Len(result.frames) : ~Blank(skip_blank_generations, result.frames[k])

\* C2 witness: the head of a pass after one frame was kept and one discarded
C2_Witness ==
    /\ pc = "rf_loop"
    /\ Len(frames) >= 1
    /\ call.blank_logs >= 1
    /\ call.autosave

\* C3 (as claimed): a file whose decoding fails softly does not end the
\* batch: the pass over it raises nothing.
C3_BadFileSkipped ==
    \A k \in 1..Len(PassesSoFar) :
        IsNonePair(load_tif_metadata(InputFile(PassesSoFar[k].file)))
            => PassesSoFar[k].raised = ""

\* C4 (as claimed): for a file that decodes and is not skipped, regen_frames
\* (given a 3-tuple shape) rebuilds the model and calls run_frames with the
\* tensor load_tif_metadata put under 'latents', autosave off.
C4_LatentsPassed ==
    \A k \in 1..Len(PassesSoFar) :
        LET p == PassesSoFar[k]
            shape == IF pc = "regen_loop" THEN call.output_shape ELSE result.output_shape
        IN  (~p.skipped /\ Decodes(p.file) /\ Len(shape) = 3)
                => /\ p.built = 1
                   /\ p.run.called
                   /\ p.run.latents = load_tif_metadata(InputFile(p.file)).metadata["latents"]
                   /\ ~p.run.autosave

\* the optional keys C5 lists
C5_NoneKeys ==
    {"mlp_layer_width", "conv_feature_map_size", "num_graph_nodes",
     "weight_init_mean", "weight_init_std", "weight_init_max", "weight_init_min",
     "activations", "graph", "final_activation", "weight_init", "graph_topology", "latents"}

\* the case of C5: a dict of exactly the seven required keys, typed as the
\* schema says, was written by write_image and read by load_tif_metadata
C5_Case ==
    /\ tif_result.called
    /\ tif_source.written
    /\ tif_source.has_md
    /\ DOMAIN tif_source.md = RequiredKeys
    /\ SchemaTyped(tif_source.md)

\* C5: writing a dict of exactly the seven required keys and reading it back
\* raises nothing and gives the same seven values, z_dim equal to x_dim,
\* input_encoding_dim 1, and None with a warning for every other optional key.
C5_RoundTrip ==
    C5_Case =>
        LET out == tif_result.out IN
        /\ out.raised = ""
        /\ \A k \in RequiredKeys : PyEq(out.metadata[k], tif_source.md[k])
        /\ PyEq(out.metadata["z_dim"], tif_source.md["x_dim"])
        /\ out.metadata["input_encoding_dim"] = IntV(1)
        /\ \A k \in C5_NoneKeys :
                /\ out.metadata[k] = NoneV
                /\ \E j \in 1..Len(out.warnings) : out.warnings[j].key = k

C5_Witness == C5_Case /\ tif_source.md["latent_scale"] = IntV(1)

\* the inputs C6 calls unreadable
C6_Unreadable(f) ==
    \/ ~f.isfile
    \/ ~f.shaped
    \/ ~(RequiredKeys \subseteq DOMAIN f.data)

\* C6 (as claimed): on every unreadable input, a missing path and a block
\* without the required keys included, load_tif_metadata returns
\* (None, None) with a warning and raises nothing.
C6_NeverRaises ==
    (tif_result.called /\ C6_Unreadable(tif_file))
        => /\ IsNonePair(tif_result.out)
           /\ tif_result.out.warnings # <<>>

\* C6 (amended): load_tif_metadata returns (None, None) with a warning when
\* the path is a file that tifffile cannot open or that has no shaped
\* metadata block; a path that is not a file raises AssertionError and a
\* block without a required key raises KeyError.
C6_SoftOnUnreadableFile ==
    tif_result.called =>
        /\ (tif_file.isfile /\ ~tif_file.shaped)
                => (IsNonePair(tif_result.out) /\ tif_result.out.warnings # <<>>)
        /\ ~tif_file.isfile => tif_result.out.raised = "AssertionError"
        /\ (tif_file.isfile /\ tif_file.shaped /\ ~(RequiredKeys \subseteq DOMAIN tif_file.data))
                => tif_result.out.raised = "KeyError"

\* C6 witness: a file written without metadata was read
C6_Witness ==
    /\ tif_result.called
    /\ tif_source.written
    /\ tif_file.isfile
    /\ ~tif_file.shaped

\* C7 (as claimed): the name regen_frames derives contains _reproduce once.
C7_SuffixOnce ==
    \A k \in 1..Len(PassesSoFar) : Count(PassesSoFar[k].save_fn, s__reproduce) = 1

\* C8 (as claimed): a run_frames call that returns has retained exactly
\* num_samples frames.
C8_ExactlyNumSamples ==
    (result.op = "run_frames" /\ result.raised = "")
        => Len(result.frames) = result.num_samples

\* C8 (amended): a discarded frame uses up its index of range(num_samples):
\* a run_frames call that returns has retained num_samples frames minus the
\* discarded ones, so exactly num_samples only when none was discarded.
C8_RetainedPlusDiscarded ==
    (result.op = "run_frames" /\ result.raised = "")
        => /\ Len(result.frames) + result.blank_logs = result.num_samples
           /\ ~skip_blank_generations => result.blank_logs = 0

C8_Witness ==
    /\ result.op = "run_frames"
    /\ result.raised = ""
    /\ result.blank_logs >= 1
    /\ Len(result.frames) >= 1

\* C9: lerp returns n+2 states, the first z1's sample, the last z2's, state i
\* the sample z1 + i*(z2 - z1)/(n+1), consecutive states one step apart,
\* every state with z1's sample_shape.
C9_LerpStates ==
    lerp_states # <<>> =>
        LET n == lerp_args.n
            a == lerp_args.z1.sample
            b == lerp_args.z2.sample
        IN  /\ Len(lerp_states) = n + 2
            /\ RatEq(lerp_states[1].sample, a)
            /\ RatEq(lerp_states[n + 2].sample, b)
            /\ \A k \in 1..Len(lerp_states) :
                    /\ RatEq(lerp_states[k].sample,
                             Rat(a.num * (n + 1) + (k - 1) * (b.num - a.num), n + 1))
                    /\ lerp_states[k].sample_shape = lerp_args.z1.sample_shape
            /\ \A k \in 1..(Len(lerp_states) - 1) :
                    RatEq(RatSub(lerp_states[k + 1].sample, lerp_states[k].sample),
                          Rat(b.num - a.num, n + 1))

C9_Witness ==
    /\ lerp_states # <<>>
    /\ lerp_args.n >= 2
    /\ lerp_args.z1.sample # lerp_args.z2.sample
    /\ lerp_args.z1.sample_shape # lerp_args.z2.sample_shape

\* a step that is the call of op and ends in AssertionError
C10_Failed(op) ==
    /\ pc = "idle"
    /\ pc' = "idle"
    /\ calls'.api = calls.api + 1
    /\ result'.op = op
    /\ result'.raised = "AssertionError"

\* a step that is the call of op
C10_Called(op) ==
    /\ pc = "idle"
    /\ calls'.api = calls.api + 1
    /\ \/ call'.op = op
       \/ pc' = "idle" /\ result'.op = op

\* C10: run_frames without a model, fit without a model or with a mapping
\* that is not an INRConvMap, and reinit_model_from_metadata with a shape
\* that is not a 3-tuple raise, and the call that raises makes no model call,
\* builds no model, writes no file and leaves self.model as it was.
C10_FailFast ==
    [][/\ (C10_Called("run_frames") /\ ~model.bound) => C10_Failed("run_frames")
       /\ (C10_Called("fit") /\ (~model.bound \/ model.map_fn # "INRConvMap"))
            => C10_Failed("fit")
       /\ (C10_Called("reinit_model_from_metadata") /\ Len(result'.output_shape) # 3)
            => C10_Failed("reinit_model_from_metadata")
       /\ (\E op \in {"run_frames", "fit", "reinit_model_from_metadata"} : C10_Failed(op))
            => /\ model' = model
               /\ out_files' = out_files
               /\ calls'.init_latent_inputs = calls.init_latent_inputs
               /\ calls'.generate = calls.generate
               /\ calls'.fit = calls.fit
               /\ calls'.INRF2D = calls.INRF2D]_vars

\* C10 witness: reinit_model_from_metadata was refused a 2-tuple while a
\* model was bound
C10_Witness ==
    /\ result.op = "reinit_model_from_metadata"
    /\ result.raised = "AssertionError"
    /\ Len(result.output_shape) = 2
    /\ model.bound
    /\ model.id = 0

\* p is a prefix of s
StartsWith(s, p) == Len(s) >= Len(p) /\ SubSeq(s, 1, Len(p)) = p

\* the shape the regen_frames call in progress, or the last one, was given
RegenShape == IF pc = "regen_loop" THEN call.output_shape ELSE result.output_shape

\* C11 (as claimed): for every input file regen_frames processes (it decodes,
\* its output is not there yet, the shape is a 3-tuple): when no frame
\* survives nothing is written and the loop goes on; when k >= 1 survive, the
\* archival files of the indices 0..k-1, and no other index, are written
\* under the derived name with a metadata block, and no written file has the
\* fresh-generation name.
C11_PersistSurvivors ==
    \A j \in 1..Len(PassesSoFar) :
        LET p == PassesSoFar[j]
            tif(i) == p.save_fn \o <<"_">> \o Str(i) \o <<".">> \o s_tif
        IN  (~p.skipped /\ Decodes(p.file) /\ Len(RegenShape) = 3)
                => /\ p.run.returned = 0 => (p.wrote = {} /\ p.raised = "")
                   /\ p.run.returned >= 1
                        => /\ \A i \in 0..(p.run.returned - 1) :
                                /\ tif(i) \in p.wrote
                                /\ tif(i) \in DOMAIN out_files
                                /\ out_files[tif(i)].shaped
                           /\ tif(p.run.returned) \notin p.wrote
                   /\ \A n \in p.wrote : /\ StartsWith(n, p.save_fn)
                                         /\ ~StartsWith(n, s_gen_image)

\* the pass a step of the loop over image_paths adds to the record
NewPass == IF pc' = "regen_loop" THEN call'.steps[Len(call'.steps)]
           ELSE result'.steps[Len(result'.steps)]

\* a step that is one pass of the loop over image_paths
PassTaken ==
    /\ pc = "regen_loop"
    /\ call.remaining # {}
    /\ \/ pc' = "regen_loop" /\ Len(call'.steps) = Len(call.steps) + 1
       \/ pc' = "idle" /\ Len(result'.steps) = Len(call.steps) + 1

\* C12 (as claimed): with save_video on, the pass over a file regen_frames
\* processes (it decodes, its output is not there yet, the shape is a
\* 3-tuple) raises nothing: the frames that survive are persisted, the video
\* is assembled from them and the loop goes on.
C12_VideoCompletes ==
    [][(/\ PassTaken
        /\ call.save_video
        /\ Len(call.output_shape) = 3
        /\ ~NewPass.skipped
        /\ Decodes(NewPass.file))
            => /\ NewPass.raised = ""
               /\ pc' = "regen_loop"
               /\ NewPass.run.called
               /\ NewPass.run.returned >= 1 => NewPass.wrote # {}]_vars

\* C13 (as claimed): a regen_frames call on an existing path (a file or a
\* directory) with a 3-tuple shape, in which every file met decodes, ends
\* without an exception and returns a list.
C13_ReturnsList ==
    (/\ pc = "idle"
     /\ result.op = "regen_frames"
     /\ result.path.kind \in {"file", "dir"}
     /\ Len(result.output_shape) = 3
     /\ \A j \in 1..Len(result.steps) : Decodes(result.steps[j].file))
        => /\ result.raised = ""
           /\ result.returned \in {"list", "[]"}

\* the four files fit writes for epoch e hold the training frame and the
\* test frame of that epoch
FitPersisted(files, e, c_dim) ==
    LET train(sfx) == FitName(e) \o <<".">> \o sfx
        test(sfx) == FitName(e) \o s__test \o <<".">> \o sfx
    IN  \A sfx \in {s_png, s_tif} :
            /\ train(sfx) \in DOMAIN files
            /\ test(sfx) \in DOMAIN files
            /\ files[train(sfx)].img = Frame(e, 255, c_dim)
            /\ files[test(sfx)].img = Frame(e + 10, 255, c_dim)

\* C14: every step of fit's loop is step e = the number of steps taken so
\* far; it makes one Model.fit call, given num_iters_per_epoch, appends that
\* call's loss as entry e and leaves the training and the test frame of
\* epoch e (and of every earlier epoch) on disk when step e+1 can begin; the
\* loop ends only after num_epochs steps and fit returns the losses in the
\* order of the Model.fit calls.
C14_FitEpochs ==
    [][pc = "fit_loop" =>
        /\ Len(call.loss_vals) = call.epoch
        /\ call.epoch <= call.num_epochs
        /\ pc' = "fit_loop" =>
            /\ call.epoch < call.num_epochs
            /\ call'.epoch = call.epoch + 1
            /\ calls'.fit = calls.fit + 1
            /\ call'.loss_vals = Append(call.loss_vals, calls'.fit)
            /\ call'.fit_iters = Append(call.fit_iters, call.num_iters_per_epoch)
            /\ \A e \in 0..call.epoch : FitPersisted(out_files', e, model.c_dim)
        /\ pc' = "idle" =>
            /\ call.epoch = call.num_epochs
            /\ calls'.fit = calls.fit
            /\ out_files' = out_files
            /\ result'.op = "fit"
            /\ result'.raised = ""
            /\ result'.loss_vals = call.loss_vals
            /\ Len(result'.loss_vals) = call.num_epochs
            /\ \A k \in 1..Len(result'.loss_vals) :
                    result'.loss_vals[k] = calls.fit - call.num_epochs + k]_vars

\* C14 witness: fit returned after MaxEpochs epochs, the frames of all of
\* them on disk
C14_Witness ==
    /\ result.op = "fit"
    /\ result.raised = ""
    /\ Len(result.loss_vals) = MaxEpochs
    /\ \A e \in 0..(MaxEpochs - 1) : FitPersisted(out_files, e, model.c_dim)

====
